---- MODULE Spec2Model ----
(***************************************************************************)
(* Model of zenodo_migrationkit/transform.py: the record transformation    *)
(* pipeline (transform_record and its thirteen steps) and the migration    *)
(* orchestrator (migrate_record) with its session commit / rollback and    *)
(* the compensating persistent-identifier update.                          *)
(*                                                                         *)
(* A JSON document is a function from key strings to values.  A value that *)
(* the code tests with isinstance(x, string_types) / isinstance(x, list)   *)
(* is tagged: Str(s) or List(l).  Python's None is the value None.         *)
(***************************************************************************)
EXTENDS Bags, FiniteSets, Integers, Sequences, TLC

\* ------------------------------------------------------------------ bounds
\* Number of calls (migrate_record or transform_record) the caller makes.
MaxCalls == 2

\* ----------------------------------------------------------- JSON helpers
None == "<None>"
Str(s) == [t |-> "str", v |-> <<s>>]
List(l) == [t |-> "list", v |-> l]
EmptyDoc == [k \in {} |-> None]

Has(d, k) == k \in DOMAIN d
Put(d, k, v) == [x \in DOMAIN d \cup {k} |-> IF x = k THEN v ELSE d[x]]
Del(d, k) == [x \in DOMAIN d \ {k} |-> d[x]]
Get(d, k) == IF k \in DOMAIN d THEN d[k] ELSE None

\* isinstance(x, string_types) and Python truthiness of a tagged value
IsString(x) == x.t = "str"
Truthy(x) == IF x.t = "str" THEN x.v[1] # "" ELSE Len(x.v) > 0
\* truthiness of a plain string or None
Falsy(s) == s = None \/ s = ""

Range(s) == {s[i] : i \in DOMAIN s}
\* list(set(xs)): the elements once each, in an order the runtime chooses
ListsOfSet(S) ==
    {l \in [1..Cardinality(S) -> S] : \A i, j \in 1..Cardinality(S) : l[i] = l[j] => i = j}

\* int(s) for the identifiers that occur; anything else raises ValueError
IntValues == [x \in {"5", "7"} |-> IF x = "5" THEN 5 ELSE 7]
IsInt(s) == s \in DOMAIN IntValues

\* datetime.utcnow() readings and datetime_to_datestamp (second precision)
Clock == {[s |-> 100, us |-> 0], [s |-> 101, us |-> 250]}
datetime_to_datestamp(d) == d.s

\* outcome of one transformation step: the (in-place mutated) record and
\* whether the step returned or raised
Ok(r) == [ok |-> TRUE, rec |-> r]
Raise(r) == [ok |-> FALSE, rec |-> r]

SchemaKey == "$schema"
SchemaURI == "https://zenodo.org/schemas/records/record-v1.0.0.json"
GrantPrefix == "http://dx.zenodo.org/grants/10.13039/501100000780::"

\* ------------------------------------------------- transformation steps
RemovedKeys ==
    {"fft", "files_to_upload", "collections", "preservation_score",
     "restriction", "url", "version_history", "documents", "creation_date",
     "modification_date", "system_control_number", "system_number"}

_remove_fields(record) ==
    {Ok([k \in DOMAIN record \ RemovedKeys |-> record[k]])}

_migrate_description(record) ==
    {Ok(IF ~Has(record, "description") THEN Put(record, "description", "") ELSE record)}

ImprintKeys == <<"publisher", "title", "year">>

RECURSIVE ImprintLoop(_, _, _)
\* the for loop of _migrate_imprint from position i with part_of built so far;
\* yields <<raised, part_of>>
ImprintLoop(imprint, part_of, i) ==
    IF i > Len(ImprintKeys) THEN <<FALSE, part_of>>
    ELSE LET k == ImprintKeys[i] IN
         IF Has(imprint, k)
         THEN IF Has(part_of, k) THEN <<TRUE, part_of>>
              ELSE ImprintLoop(imprint, Put(part_of, k, imprint[k]), i + 1)
         ELSE ImprintLoop(imprint, part_of, i + 1)

_migrate_imprint(record) ==
    IF ~Has(record, "imprint") THEN {Ok(record)}
    ELSE LET res == ImprintLoop(record["imprint"], EmptyDoc, 1)
             withPart == Put(record, "part_of", res[2])
         IN IF res[1] THEN {Raise(withPart)} ELSE {Ok(Del(withPart, "imprint"))}

\* variant: the del record['upload_type'] is missing
_migrate_upload_type_keep(record) ==
    IF ~Has(record, "upload_type") THEN {Raise(record)}
    ELSE {Ok(Put(record, "resource_type", record["upload_type"]))}

_migrate_upload_type(record) ==
    IF ~Has(record, "upload_type") THEN {Raise(record)}
    ELSE {Ok(Del(Put(record, "resource_type", record["upload_type"]), "upload_type"))}

\* one creator entry after the loop body of _migrate_authors
CollapseAffiliation(c) ==
    IF Has(c, "affiliation") /\ ~IsString(c["affiliation"])
    THEN Put(c, "affiliation", Str(c["affiliation"].v[1]))
    ELSE c

\* index of the first entry whose affiliation is an empty list (IndexError), or 0
FirstBadAuthor(as) ==
    LET bad == {i \in DOMAIN as : Has(as[i], "affiliation")
                                  /\ ~IsString(as[i]["affiliation"])
                                  /\ Len(as[i]["affiliation"].v) = 0}
    IN IF bad = {} THEN 0 ELSE CHOOSE i \in bad : \A j \in bad : i <= j

_migrate_authors(record) ==
    IF ~Has(record, "authors") THEN {Raise(record)}
    ELSE LET as == record["authors"]
             b == FirstBadAuthor(as)
             done == [i \in DOMAIN as |->
                        IF b = 0 \/ i < b THEN CollapseAffiliation(as[i]) ELSE as[i]]
         IN IF b = 0 THEN {Ok(Del(Put(record, "creators", done), "authors"))}
            \* record['creators'] and record['authors'] are the same list object
            ELSE {Raise(Put(Put(record, "creators", done), "authors", done))}

_migrate_meetings(record) ==
    IF Has(record, "conference_url")
    THEN LET meetings == IF Has(record, "meetings") THEN record["meetings"] ELSE EmptyDoc
         IN {Ok(Del(Put(record, "meetings", Put(meetings, "url", record["conference_url"])),
                    "conference_url"))}
    ELSE {Ok(record)}

_migrate_owners(record) ==
    IF ~Has(record, "owner") THEN {Ok(record)}
    ELSE LET o == record["owner"]
             r1 == Del(record, "owner")
             agent == [role |-> "uploader", email |-> Get(o, "email"),
                       username |-> Get(o, "username"), user_id |-> Get(o, "id")]
             pruned == [k \in {x \in DOMAIN agent : ~Falsy(agent[x])} |-> agent[k]]
         IN IF ~Falsy(Get(o, "id")) /\ ~IsInt(o["id"]) THEN {Raise(r1)}
            ELSE LET owners == IF ~Falsy(Get(o, "id")) THEN <<IntValues[o["id"]]>> ELSE <<>>
                     internal == [state |-> "published",
                                  source |-> [legacy_deposit_id |-> Get(o, "deposition_id"),
                                              agents |-> <<pruned>>]]
                 IN {Ok(Put(Put(r1, "owners", owners), "_internal", internal))}

\* mapper(x) of _migrate_grants
mapper_grant(x) == Put(EmptyDoc, "$ref", GrantPrefix \o x["identifier"])

_migrate_grants(record) ==
    IF ~Has(record, "grants") THEN {Ok(record)}
    ELSE LET gs == record["grants"] IN
         IF \E i \in DOMAIN gs : ~Has(gs[i], "identifier") THEN {Raise(record)}
         ELSE {Ok(Put(record, "grants",
                      [i \in DOMAIN gs |-> mapper_grant(gs[i])]))}

HasRawReference(x) == ~Falsy(Get(x, "raw_reference"))

_migrate_references(record) ==
    IF ~Has(record, "references") THEN {Ok(record)}
    ELSE LET kept == SelectSeq(record["references"], HasRawReference)
         IN {Ok(Put(record, "references",
                    [i \in DOMAIN kept |-> [raw_reference |-> kept[i]["raw_reference"]]]))}

_migrate_oai(record) ==
    IF ~Has(record, "oai") THEN {Ok(record)}
    ELSE LET oai == record["oai"]
             r1 == Del(record, "oai")
             ind == IF Has(oai, "indicator") THEN oai["indicator"] ELSE List(<<>>)
             sets == IF IsString(ind) THEN List(ind.v) ELSE ind
         IN IF ~Has(oai, "oai") THEN {Raise(r1)}
            ELSE {Ok(Put(r1, "_oai", [id |-> oai["oai"], sets |-> sets,
                                      updated |-> datetime_to_datestamp(now)]))
                    : now \in Clock}

_migrate_communities(record) ==
    IF ~Has(record, "communities") THEN {Ok(record)}
    ELSE LET c0 == record["communities"]
             comms == IF IsString(c0) THEN List(c0.v) ELSE c0
         IN IF Truthy(comms)
            THEN {Ok(Put(record, "communities", List(l))) : l \in ListsOfSet(Range(comms.v))}
            ELSE {Ok(record)}

_migrate_provisional_communities(record) ==
    IF ~Has(record, "provisional_communities") THEN {Ok(record)}
    ELSE LET c0 == record["provisional_communities"]
             comms == IF IsString(c0) THEN List(c0.v) ELSE c0
         IN IF Truthy(comms)
            THEN IF Has(record, "communities")
                 THEN {Ok(Put(record, "provisional_communities", List(l)))
                         : l \in ListsOfSet(Range(comms.v) \ Range(record["communities"].v))}
                 ELSE {Ok(Put(record, "provisional_communities", List(l)))
                         : l \in ListsOfSet(Range(comms.v))}
            ELSE {Ok(Del(record, "provisional_communities"))}

\* variant: the marker is written under the key 'schema'
_add_schema_wrong_key(record) ==
    {Ok(Put(record, "schema", SchemaURI))}

_add_schema(record) ==
    {Ok(Put(record, SchemaKey, SchemaURI))}

\* variant: _add_schema is listed first
transformations_schema_first ==
    <<"_add_schema", "_remove_fields", "_migrate_upload_type", "_migrate_authors",
      "_migrate_oai", "_migrate_grants", "_migrate_meetings", "_migrate_owners",
      "_migrate_description", "_migrate_imprint", "_migrate_references",
      "_migrate_communities", "_migrate_provisional_communities">>

\* the ordered list of transform_record
transformations ==
    <<"_remove_fields", "_migrate_upload_type", "_migrate_authors", "_migrate_oai",
      "_migrate_grants", "_migrate_meetings", "_migrate_owners",
      "_migrate_description", "_migrate_imprint", "_migrate_references",
      "_migrate_communities", "_migrate_provisional_communities", "_add_schema">>

\* func(record) for the named step
Apply(func, record) ==
    CASE func = "_remove_fields" -> _remove_fields(record)
      [] func = "_migrate_upload_type" -> _migrate_upload_type(record)
      [] func = "_migrate_authors" -> _migrate_authors(record)
      [] func = "_migrate_oai" -> _migrate_oai(record)
      [] func = "_migrate_grants" -> _migrate_grants(record)
      [] func = "_migrate_meetings" -> _migrate_meetings(record)
      [] func = "_migrate_owners" -> _migrate_owners(record)
      [] func = "_migrate_description" -> _migrate_description(record)
      [] func = "_migrate_imprint" -> _migrate_imprint(record)
      [] func = "_migrate_references" -> _migrate_references(record)
      [] func = "_migrate_communities" -> _migrate_communities(record)
      [] func = "_migrate_provisional_communities" -> _migrate_provisional_communities(record)
      [] func = "_add_schema" -> _add_schema(record)


\* --------------------------------------------------------- legacy inputs
Merge(d, e) == [k \in DOMAIN d \cup DOMAIN e |-> IF k \in DOMAIN e THEN e[k] ELSE d[k]]
Opt(k, present, v) == IF present THEN Put(EmptyDoc, k, v) ELSE EmptyDoc

AuthorsGood == <<[name |-> "Doe, J", affiliation |-> List(<<"CERN", "MIT">>)],
                 [name |-> "Roe, R", affiliation |-> Str("CERN")],
                 [name |-> "Poe, E"]>>
\* second entry has an empty affiliation list: c['affiliation'][0] raises
AuthorsBad == <<[name |-> "Doe, J", affiliation |-> List(<<"CERN", "MIT">>)],
                [name |-> "Roe, R", affiliation |-> List(<<>>)]>>
AuthorsOptions == {EmptyDoc, Opt("authors", TRUE, AuthorsGood), Opt("authors", TRUE, AuthorsBad)}

Comm(c) == Opt("communities", TRUE, c)
Prov(c) == Opt("provisional_communities", TRUE, c)
CommunityOptions ==
    {EmptyDoc,
     Comm(List(<<"a", "b", "a">>)),
     Merge(Comm(List(<<"a">>)), Prov(List(<<"a", "b">>))),
     Merge(Comm(List(<<"a">>)), Prov(List(<<"a">>))),
     Merge(Comm(List(<<"a", "b">>)), Prov(Str("a"))),
     Merge(Comm(Str("a")), Prov(Str("b"))),
     Merge(Comm(List(<<>>)), Prov(List(<<"b", "b">>))),
     Prov(List(<<"a", "b">>)),
     Prov(List(<<>>))}

Files == <<[bucket |-> "b1", key |-> "f1"], [bucket |-> "b1", key |-> "f2"],
           [bucket |-> "b2", key |-> "f3"]>>
FilesOptions == {EmptyDoc, Opt("files", TRUE, Files)}

ExtraRich ==
    [oai |-> [oai |-> "oai:zenodo.org:1", indicator |-> List(<<"s1", "s2">>)],
     owner |-> [id |-> "5", email |-> "x@y.com"],
     grants |-> <<[identifier |-> "123"]>>,
     conference_url |-> "http://conf",
     imprint |-> [publisher |-> "P", place |-> "Geneva", year |-> "2014"],
     references |-> <<[raw_reference |-> "R1"], [raw_reference |-> ""], [doi |-> "10.1/x"]>>,
     url |-> "http://old", collections |-> "c1"]
ExtraAlt ==
    [oai |-> [oai |-> "oai:zenodo.org:2", indicator |-> Str("s1")],
     owner |-> [id |-> "", username |-> "bob", deposition_id |-> "7"],
     meetings |-> [title |-> "M"],
     conference_url |-> "http://conf",
     description |-> "text", fft |-> "x"]
\* oai without the 'oai' key: _migrate_oai raises after popping the key
ExtraBadOai == [oai |-> [indicator |-> Str("s1")]]
\* owner id that int() rejects
ExtraBadOwner == [owner |-> [id |-> "abc", email |-> "x@y.com"]]
\* a grant without identifier
ExtraBadGrant == [grants |-> <<[identifier |-> "123"], [title |-> "g"]>>]
\* a file entry without 'bucket': file['bucket'] raises KeyError
ExtraBadFiles == [files |-> <<[bucket |-> "b1", key |-> "f1"], [key |-> "f2"]>>]
ExtraOptions ==
    {ExtraRich, ExtraAlt, ExtraBadOai, ExtraBadOwner, ExtraBadGrant, ExtraBadFiles}

CoreDocs ==
    {Merge(Merge(Merge(Merge(Opt(SchemaKey, s, SchemaURI), Opt("upload_type", u, "publication")),
                       a), c), f)
       : s \in BOOLEAN, u \in BOOLEAN, a \in AuthorsOptions,
         c \in CommunityOptions, f \in FilesOptions}
ExtraDocs ==
    {Merge(Merge(Merge([upload_type |-> "publication", authors |-> AuthorsGood], c), f), e)
       : c \in {EmptyDoc, Merge(Comm(List(<<"a">>)), Prov(List(<<"a", "b">>)))},
         f \in FilesOptions, e \in ExtraOptions}
InputDocs == CoreDocs \cup ExtraDocs


\* ------------------------------------------------------------------ state
RecordId == "r1"

\* PIDStatus values
REGISTERED == "R"
RESERVED == "K"

EmptyFn == [k \in {} |-> None]
EmptySession == [docs |-> EmptyFn, reqs |-> EmptyBag, links |-> EmptyBag, pid |-> EmptyFn]
NoExc == [type |-> "none", at |-> "none"]
Exc(type, at) == [type |-> type, at |-> at]

VARIABLES
    db,         \* committed store: record documents, inclusion requests,
                \* RecordsBuckets rows, persistent-identifier status
    session,    \* db.session: changes added since the last commit / rollback
    pc,         \* position of the running call ("idle": no call running)
    mode,       \* "migrate" (migrate_record) or "direct" (transform_record)
    logger,     \* whether the call was given a logger
    log,        \* messages the logger received during the call
    record,     \* the local variable record
    held,       \* the document the caller passes to transform_record
    tstep,      \* index into transformations of the step reduce() is at
    todo,       \* rest of record['provisional_communities'] in the for loop
    buckets,    \* rest of bucket_ids in the for loop
    orig,       \* the exception the except Exception block is handling
    exc,        \* the exception that reached the caller
    result,     \* "running", "returned" or "raised"
    trace,      \* session / collaborator operations performed by the call
    ncalls,     \* calls made so far
    pre,        \* db when the call started
    tin,        \* argument of the running transform_record call
    reapplied,  \* the argument is the value a transform_record call returned
    fetched,    \* what Record.get_record did: "none", "found", "notfound", "error"
    attempted,  \* community ids the loop has processed
    provs,      \* record['provisional_communities'] when the loop started
    bucket_ids  \* the set bucket_ids computed from record['files']

vars == <<db, session, pc, mode, logger, log, record, held, tstep, todo, buckets,
          orig, exc, result, trace, ncalls, pre, tin, reapplied, fetched, 
          attempted, provs, bucket_ids>>

Init ==
    /\ \E d \in InputDocs, exists \in BOOLEAN, haspid \in BOOLEAN :
         /\ db = [docs |-> IF exists THEN Put(EmptyFn, RecordId, d) ELSE EmptyFn,
                  reqs |-> EmptyBag, links |-> EmptyBag,
                  pid |-> IF haspid THEN Put(EmptyFn, RecordId, REGISTERED) ELSE EmptyFn]
         /\ held = d
    /\ session = EmptySession
    /\ pc = "idle" /\ mode = "none" /\ logger = FALSE /\ log = <<>>
    /\ record = EmptyDoc /\ tstep = 0 /\ todo = <<>> /\ buckets = {}
    /\ orig = NoExc /\ exc = NoExc /\ result = "none" /\ trace = <<>>
    /\ ncalls = 0 /\ pre = db /\ tin = EmptyDoc /\ reapplied = FALSE
    /\ fetched = "none" /\ attempted = <<>> /\ provs = <<>>
    /\ bucket_ids = {}

\* ------------------------------------------------------------ session ops
\* db.session.commit(): the pending changes become the committed state
Committed(d, s) ==
    [docs |-> Merge(d.docs, s.docs), reqs |-> d.reqs (+) s.reqs,
     links |-> d.links (+) s.links, pid |-> Merge(d.pid, s.pid)]

Logged(msg) == IF logger THEN Append(log, msg) ELSE log

\* ----------------------------------------------------- exception dispatch
\* variant: no except NoResultFound clause
ExceptClause_no_notfound(e) == "h_rollback"

\* The except clauses of migrate_record: NoResultFound is logged and
\* swallowed, any other exception enters the except Exception block.
ExceptClause(e) == IF e.type = "NoResultFound" THEN "m_notfound" ELSE "h_rollback"

\* an exception e raised inside the try block of migrate_record
Throw(e) ==
    /\ pc' = ExceptClause(e)
    /\ orig' = IF ExceptClause(e) = "h_rollback" THEN e ELSE orig

\* an exception e leaves the running call
Propagate(e) ==
    /\ pc' = "idle" /\ result' = "raised" /\ exc' = e

Return == pc' = "idle" /\ result' = "returned" /\ exc' = NoExc


\* ---------------------------------------------------------------- caller
\* the caller invokes migrate_record(RecordId, logger)
CallMigrate ==
    /\ pc = "idle" /\ ncalls < MaxCalls
    /\ \E lg \in BOOLEAN : logger' = lg
    /\ pc' = "m_get" /\ mode' = "migrate" /\ log' = <<>>
    /\ record' = EmptyDoc /\ tstep' = 0 /\ todo' = <<>> /\ buckets' = {}
    /\ orig' = NoExc /\ exc' = NoExc /\ result' = "running" /\ trace' = <<>>
    /\ ncalls' = ncalls + 1 /\ pre' = db /\ tin' = EmptyDoc /\ reapplied' = FALSE
    /\ fetched' = "none" /\ attempted' = <<>> /\ provs' = <<>>
    /\ bucket_ids' = {}
    /\ UNCHANGED <<db, session, held>>

\* the caller invokes transform_record(held); held is the legacy document,
\* or whatever an earlier transform_record call left of it or returned
CallTransform ==
    /\ pc = "idle" /\ ncalls < MaxCalls
    /\ pc' = "t_guard" /\ mode' = "direct" /\ logger' = FALSE /\ log' = <<>>
    /\ record' = held /\ tin' = held
    /\ reapplied' = (mode = "direct" /\ result = "returned")
    /\ tstep' = 0 /\ todo' = <<>> /\ buckets' = {}
    /\ orig' = NoExc /\ exc' = NoExc /\ result' = "running" /\ trace' = <<>>
    /\ ncalls' = ncalls + 1 /\ pre' = db
    /\ fetched' = "none" /\ attempted' = <<>> /\ provs' = <<>>
    /\ bucket_ids' = {}
    /\ UNCHANGED <<db, session, held>>

\* ------------------------------------------------------- transform_record
\* transform_record returns r to its caller
TransformReturn(r) ==
    IF mode = "direct"
    THEN /\ Return /\ held' = r
    ELSE /\ pc' = "m_commit" /\ UNCHANGED <<result, exc, held>>

\* if '$schema' in record: return record
TransformGuard ==
    /\ pc = "t_guard"
    /\ IF Has(record, SchemaKey)
       THEN TransformReturn(record) /\ tstep' = tstep
       ELSE pc' = "t_step" /\ tstep' = 1 /\ UNCHANGED <<result, exc, held>>
    /\ UNCHANGED <<db, session, mode, logger, log, record, todo, buckets, orig, trace,
                   ncalls, pre, tin, reapplied, fetched, attempted, provs,
                   bucket_ids>>

\* one iteration of reduce(lambda record, func: func(record), ...)
TransformStep ==
    /\ pc = "t_step"
    /\ \E o \in Apply(transformations[tstep], record) :
         /\ record' = o.rec
         /\ IF o.ok
            THEN IF tstep < Len(transformations)
                 THEN /\ pc' = "t_step" /\ tstep' = tstep + 1
                      /\ held' = IF mode = "direct" THEN o.rec ELSE held
                      /\ UNCHANGED <<result, exc, orig>>
                 ELSE /\ TransformReturn(o.rec) /\ UNCHANGED <<tstep, orig>>
            ELSE /\ held' = IF mode = "direct" THEN o.rec ELSE held
                 /\ tstep' = tstep
                 /\ IF mode = "direct"
                    THEN Propagate(Exc("Exception", "transform")) /\ UNCHANGED orig
                    ELSE Throw(Exc("Exception", "transform")) /\ UNCHANGED <<result, exc>>
    /\ UNCHANGED <<db, session, mode, logger, log, todo, buckets, trace, ncalls, pre,
                   tin, reapplied, fetched, attempted, provs, bucket_ids>>

\* --------------------------------------------------------- migrate_record
\* record = Record.get_record(record_uuid)
GetRecord ==
    /\ pc = "m_get"
    /\ \/ /\ RecordId \in DOMAIN db.docs
          /\ record' = db.docs[RecordId] /\ fetched' = "found" /\ pc' = "m_check"
          /\ UNCHANGED orig
       \/ /\ RecordId \notin DOMAIN db.docs
          /\ fetched' = "notfound" /\ Throw(Exc("NoResultFound", "get_record"))
          /\ UNCHANGED record
       \/ /\ fetched' = "error" /\ Throw(Exc("OperationalError", "get_record"))
          /\ UNCHANGED record
    /\ UNCHANGED <<db, session, mode, logger, log, held, tstep, todo, buckets, exc,
                   result, trace, ncalls, pre, tin, reapplied, attempted, provs,
                   bucket_ids>>

\* except NoResultFound: log and return
NotFound ==
    /\ pc = "m_notfound"
    /\ log' = Logged("info: Deleted record - no migration required.")
    /\ Return
    /\ UNCHANGED <<db, session, mode, logger, record, held, tstep, todo, buckets, orig,
                   trace, ncalls, pre, tin, reapplied, fetched, attempted, provs,
                   bucket_ids>>

\* variant: the already-migrated check is missing
CheckMigrated_no_skip ==
    /\ pc = "m_check"
    /\ pc' = "t_guard" /\ tin' = record /\ UNCHANGED <<log, result, exc>>
    /\ UNCHANGED <<db, session, mode, logger, record, held, tstep, todo, buckets, orig,
                   trace, ncalls, pre, reapplied, fetched, attempted, provs,
                   bucket_ids>>

\* if '$schema' in record: log and return; else call transform_record(record)
CheckMigrated ==
    /\ pc = "m_check"
    /\ IF Has(record, SchemaKey)
       THEN /\ log' = Logged("info: Record already migrated.") /\ Return
            /\ UNCHANGED tin
       ELSE /\ pc' = "t_guard" /\ tin' = record /\ UNCHANGED <<log, result, exc>>
    /\ UNCHANGED <<db, session, mode, logger, record, held, tstep, todo, buckets, orig,
                   trace, ncalls, pre, reapplied, fetched, attempted, provs,
                   bucket_ids>>

\* record.commit(): the document as it is now is written to the session
RecordCommit ==
    /\ pc = "m_commit"
    /\ \/ /\ session' = [session EXCEPT !.docs = Put(@, RecordId, record)]
          /\ trace' = Append(trace, "record.commit")
          /\ pc' = "m_prov" /\ UNCHANGED orig
       \/ /\ trace' = Append(trace, "record.commit!")
          /\ Throw(Exc("Error", "record.commit")) /\ UNCHANGED session
    /\ UNCHANGED <<db, mode, logger, log, record, held, tstep, todo, buckets, exc,
                   result, ncalls, pre, tin, reapplied, fetched, attempted, provs,
                   bucket_ids>>

\* if 'provisional_communities' in record: start the for loop
ProvCheck ==
    /\ pc = "m_prov"
    /\ IF Has(record, "provisional_communities")
       THEN /\ todo' = record["provisional_communities"].v
            /\ provs' = record["provisional_communities"].v
            /\ pc' = "m_loop"
       ELSE /\ pc' = "m_files" /\ UNCHANGED <<todo, provs>>
    /\ UNCHANGED <<db, session, mode, logger, log, record, held, tstep, buckets, orig,
                   exc, result, trace, ncalls, pre, tin, reapplied, fetched, 
                   attempted, bucket_ids>>

\* variant: the inner handler names the wrong exception class
InnerCatches_wrong_class(e) == e.type = "InclusionRequestExpiryTimeError"

\* the inner handler: except InclusionRequestExistsError
InnerCatches(e) == e.type = "InclusionRequestExistsError"

\* one iteration of the loop over record['provisional_communities']
LoopStep ==
    /\ pc = "m_loop" /\ todo # <<>>
    /\ LET c_id == Head(todo) IN
       /\ todo' = Tail(todo)
       /\ attempted' = Append(attempted, c_id)
       /\ \/ \* Community.get(c_id) returns None
             /\ log' = Logged("warning: Community does not exists")
             /\ trace' = Append(trace, "get_community:None")
             /\ pc' = "m_loop" /\ UNCHANGED <<session, orig>>
          \/ \* InclusionRequest.create succeeds
             /\ session' = [session EXCEPT !.reqs = @ (+) SetToBag({<<c_id, RecordId>>})]
             /\ trace' = Append(trace, "create")
             /\ pc' = "m_loop" /\ UNCHANGED <<log, orig>>
          \/ \* InclusionRequest.create raises
             \E e \in {Exc("InclusionRequestExistsError", "create"),
                       Exc("InclusionRequestObsoleteError", "create")} :
                /\ trace' = Append(trace, "create!" \o e.type)
                /\ IF InnerCatches(e)
                   THEN /\ log' = Logged("warning: Inclusion request exists.")
                        /\ pc' = "m_loop" /\ UNCHANGED orig
                   ELSE Throw(e) /\ UNCHANGED log
                /\ UNCHANGED session
    /\ UNCHANGED <<db, mode, logger, record, held, tstep, buckets, exc, result, ncalls,
                   pre, tin, reapplied, fetched, provs, bucket_ids>>

\* del record['provisional_communities'] after the loop
LoopEnd ==
    /\ pc = "m_loop" /\ todo = <<>>
    /\ record' = Del(record, "provisional_communities")
    /\ pc' = "m_files"
    /\ UNCHANGED <<db, session, mode, logger, log, held, tstep, todo, buckets, orig, exc,
                   result, trace, ncalls, pre, tin, reapplied, fetched, attempted,
                   provs, bucket_ids>>

\* bucket_ids = {file['bucket'] for file in record.get('files', [])}
ComputeBuckets ==
    /\ pc = "m_files"
    /\ LET files == IF Has(record, "files") THEN record["files"] ELSE <<>> IN
       IF \E i \in DOMAIN files : ~Has(files[i], "bucket")
       THEN /\ Throw(Exc("KeyError", "files")) /\ trace' = Append(trace, "files!")
            /\ UNCHANGED <<buckets, bucket_ids>>
       ELSE /\ bucket_ids' = {files[i]["bucket"] : i \in DOMAIN files}
            /\ buckets' = {files[i]["bucket"] : i \in DOMAIN files}
            /\ pc' = "m_add" /\ UNCHANGED <<orig, trace>>
    /\ UNCHANGED <<db, session, mode, logger, log, record, held, tstep, todo, exc, result,
                   ncalls, pre, tin, reapplied, fetched, attempted, provs>>

\* db.session.add(RecordsBuckets(record_id=record.id, bucket_id=bucket_id))
AddLink ==
    /\ pc = "m_add" /\ buckets # {}
    /\ \E bucket_id \in buckets :
         /\ buckets' = buckets \ {bucket_id}
         /\ \/ /\ session' = [session EXCEPT
                                !.links = @ (+) SetToBag({<<RecordId, bucket_id>>})]
               /\ trace' = Append(trace, "add")
               /\ pc' = "m_add" /\ UNCHANGED orig
            \/ /\ trace' = Append(trace, "add!")
               /\ Throw(Exc("Error", "add")) /\ UNCHANGED session
    /\ UNCHANGED <<db, mode, logger, log, record, held, tstep, todo, exc, result, ncalls,
                   pre, tin, reapplied, fetched, attempted, provs, bucket_ids>>

\* the final db.session.commit() of the try block
FinalCommit ==
    /\ pc = "m_add" /\ buckets = {}
    /\ \/ /\ db' = Committed(db, session) /\ session' = EmptySession
          /\ trace' = Append(trace, "commit")
          /\ Return /\ UNCHANGED orig
       \/ \* the commit fails: nothing is written, the transaction is void
          /\ session' = EmptySession
          /\ trace' = Append(trace, "commit!")
          /\ Throw(Exc("Error", "commit")) /\ UNCHANGED <<db, result, exc>>
    /\ UNCHANGED <<mode, logger, log, record, held, tstep, todo, buckets, ncalls, pre,
                   tin, reapplied, fetched, attempted, provs, bucket_ids>>

\* ------------------------------------------------ except Exception block
\* db.session.rollback()
Rollback ==
    /\ pc = "h_rollback"
    /\ session' = EmptySession
    /\ trace' = Append(trace, "rollback")
    /\ pc' = "h_lookup"
    /\ UNCHANGED <<db, mode, logger, log, record, held, tstep, todo, buckets, orig, exc,
                   result, ncalls, pre, tin, reapplied, fetched, attempted, provs,
                   bucket_ids>>

\* pid = PersistentIdentifier.get_by_object('recid', 'rec', record_uuid)
Lookup ==
    /\ pc = "h_lookup"
    /\ IF RecordId \in DOMAIN db.pid
       THEN /\ trace' = Append(trace, "lookup")
            /\ pc' = "h_set" /\ UNCHANGED <<result, exc>>
       ELSE /\ trace' = Append(trace, "lookup!")
            /\ Propagate(Exc("PIDDoesNotExistError", "handler.lookup"))
    /\ UNCHANGED <<db, session, mode, logger, log, record, held, tstep, todo, buckets,
                   orig, ncalls, pre, tin, reapplied, fetched, attempted, provs,
                   bucket_ids>>

\* pid.status = PIDStatus.RESERVED
SetReserved ==
    /\ pc = "h_set"
    /\ session' = [session EXCEPT !.pid = Put(@, RecordId, RESERVED)]
    /\ trace' = Append(trace, "set_reserved")
    /\ pc' = "h_commit"
    /\ UNCHANGED <<db, mode, logger, log, record, held, tstep, todo, buckets, orig, exc,
                   result, ncalls, pre, tin, reapplied, fetched, attempted, provs,
                   bucket_ids>>

\* the db.session.commit() of the except block
HandlerCommit ==
    /\ pc = "h_commit"
    /\ \/ /\ db' = Committed(db, session) /\ session' = EmptySession
          /\ trace' = Append(trace, "commit")
          /\ pc' = "h_raise" /\ UNCHANGED <<result, exc>>
       \/ /\ session' = EmptySession
          /\ trace' = Append(trace, "commit!")
          /\ Propagate(Exc("Error", "handler.commit")) /\ UNCHANGED db
    /\ UNCHANGED <<mode, logger, log, record, held, tstep, todo, buckets, orig, ncalls,
                   pre, tin, reapplied, fetched, attempted, provs, bucket_ids>>

\* raise
Reraise ==
    /\ pc = "h_raise"
    /\ Propagate(orig)
    /\ UNCHANGED <<db, session, mode, logger, log, record, held, tstep, todo, buckets,
                   orig, trace, ncalls, pre, tin, reapplied, fetched, attempted,
                   provs, bucket_ids>>

Next ==
    \/ CallMigrate \/ CallTransform
    \/ TransformGuard \/ TransformStep
    \/ GetRecord \/ NotFound \/ CheckMigrated \/ RecordCommit \/ ProvCheck
    \/ LoopStep \/ LoopEnd \/ ComputeBuckets \/ AddLink \/ FinalCommit
    \/ Rollback \/ Lookup \/ SetReserved \/ HandlerCommit \/ Reraise

Spec == Init /\ [][Next]_vars

\* ------------------------------------------------------------ properties
Count(seq, op) == Cardinality({i \in DOMAIN seq : seq[i] = op})
Suffix(seq, n) == IF Len(seq) < n THEN <<>> ELSE SubSeq(seq, Len(seq) - n + 1, Len(seq))
Elems(x) == Range(x.v)

\* a migrate_record call has ended
MigrateEnded == pc = "idle" /\ mode = "migrate"
\* ... and it had fetched a record that was not yet migrated
PastCheck == MigrateEnded /\ fetched = "found" /\ ~Has(pre.docs[RecordId], SchemaKey)
\* a transform_record call has just returned record
TransformReturned ==
    \/ mode = "direct" /\ pc = "idle" /\ result = "returned"
    \/ mode = "migrate" /\ pc = "m_commit"
\* an operation of the try block failed with something the loop does not absorb
HardFailures == {"record.commit!", "create!InclusionRequestObsoleteError", "files!",
                 "add!", "commit!"}
NoHardFailure == \A i \in DOMAIN trace : trace[i] \notin HardFailures
SoftFailure ==
    \E i \in DOMAIN trace :
        trace[i] \in {"get_community:None", "create!InclusionRequestExistsError"}

\* C1: every exception of the try block other than the fetch's not-found is
\* handled by rollback, PID lookup, status := RESERVED, commit, in this
\* order, and the original exception then reaches the caller.
C1_HandledAndReraised ==
    (MigrateEnded /\ orig # NoExc) =>
        /\ result = "raised" /\ exc = orig
        /\ Suffix(trace, 4) = <<"rollback", "lookup", "set_reserved", "commit">>
        /\ Count(trace, "rollback") = 1
        /\ RecordId \in DOMAIN db.pid /\ db.pid[RecordId] = RESERVED

\* C2: a call that gets past the already-migrated check performs either one
\* session commit and no rollback, or one rollback followed by one
\* compensating commit, whichever step fails.
C2_OneCommitOrOneRollbackAndCommit ==
    PastCheck =>
        \/ /\ result = "returned"
           /\ Count(trace, "commit") = 1 /\ Count(trace, "rollback") = 0
           /\ Count(trace, "commit!") = 0
        \/ /\ result = "raised"
           /\ Count(trace, "rollback") = 1 /\ Count(trace, "commit") = 1
           /\ Suffix(trace, 1) = <<"commit">>

\* the provisional communities of document d all occur in its communities
ProvisionalWithinCommunities(d) ==
    /\ Has(d, "provisional_communities") /\ Has(d, "communities")
    /\ Elems(d["provisional_communities"]) \subseteq Elems(d["communities"])

\* C3: when transform_record returns for an unmigrated input whose
\* provisional communities are all among its communities, the output has no
\* provisional_communities key; the key is never left as an empty list.
C3_EmptyProvisionalDeleted ==
    (TransformReturned /\ ~Has(tin, SchemaKey)) =>
        /\ ProvisionalWithinCommunities(tin) => ~Has(record, "provisional_communities")
        /\ Has(record, "provisional_communities")
              => Len(record["provisional_communities"].v) > 0

\* C4: after a successful migrate_record of a record that had provisional
\* communities, the committed document has no provisional_communities key.
C4_PersistedWithoutProvisional ==
    (PastCheck /\ result = "returned" /\ Has(pre.docs[RecordId], "provisional_communities"))
        => ~Has(db.docs[RecordId], "provisional_communities")

\* C5: transform_record applied to a value that transform_record returned
\* returns that value unchanged.
C5_Idempotent ==
    (mode = "direct" /\ pc = "idle" /\ reapplied) => (result = "returned" /\ record = tin)

C5_Witness ==
    /\ mode = "direct" /\ pc = "idle" /\ reapplied /\ result = "returned"
    /\ Has(record, "_oai") /\ Has(record, "creators") /\ Has(record, "communities")

\* C6 as stated: for every input containing upload_type, the output has
\* resource_type equal to the input's upload_type and no upload_type key.
C6_Original ==
    (TransformReturned /\ Has(tin, "upload_type")) =>
        /\ Has(record, "resource_type") /\ record["resource_type"] = tin["upload_type"]
        /\ ~Has(record, "upload_type")

\* C6 (amended): for every input that contains upload_type and does not
\* contain $schema, the output of transform_record has resource_type equal
\* to the input's upload_type and no upload_type key.
C6_UploadTypeRenamed ==
    (TransformReturned /\ Has(tin, "upload_type") /\ ~Has(tin, SchemaKey)) =>
        /\ Has(record, "resource_type") /\ record["resource_type"] = tin["upload_type"]
        /\ ~Has(record, "upload_type")

C6_Witness ==
    /\ TransformReturned /\ Has(tin, "upload_type") /\ ~Has(tin, SchemaKey)
    /\ Has(record, "resource_type")

\* C7: a duplicate-request error or a missing community in the loop does
\* not abort the migration: unless another operation fails, all community
\* ids are attempted, the bucket rows are inserted, the session is committed
\* once, nothing is raised and the PID status is untouched.
C7_SoftFailuresContinue ==
    (MigrateEnded /\ SoftFailure /\ NoHardFailure) =>
        /\ result = "returned" /\ exc = NoExc /\ orig = NoExc
        /\ attempted = provs
        /\ bucket_ids = {Files[i]["bucket"] : i \in {j \in DOMAIN Files :
                                                       Has(pre.docs[RecordId], "files")}}
        /\ \A b \in bucket_ids :
              CopiesIn(<<RecordId, b>>, db.links) = CopiesIn(<<RecordId, b>>, pre.links) + 1
        /\ Count(trace, "commit") = 1 /\ Count(trace, "rollback") = 0
        /\ db.pid = pre.pid

C7_Witness ==
    /\ MigrateEnded /\ NoHardFailure /\ result = "returned"
    /\ \E i \in DOMAIN trace : trace[i] = "get_community:None"
    /\ \E i \in DOMAIN trace : trace[i] = "create!InclusionRequestExistsError"
    /\ Len(attempted) = 2 /\ bucket_ids # {}

\* C8: when the fetch raises not-found the call returns normally and has no
\* effect except the log entry.
C8_NotFoundIsNoOp ==
    (MigrateEnded /\ fetched = "notfound") =>
        /\ result = "returned" /\ exc = NoExc
        /\ db = pre /\ session = EmptySession /\ trace = <<>>
        /\ record = EmptyDoc /\ tin = EmptyDoc
        /\ log = IF logger THEN <<"info: Deleted record - no migration required.">>
                 ELSE <<>>

C8_Witness == MigrateEnded /\ fetched = "notfound" /\ logger /\ Len(log) = 1

\* C9: migrate_record on an already migrated record does nothing; a
\* successful migrate_record leaves $schema in the committed document; so no
\* RecordsBuckets row or inclusion request is ever created twice.
C9_MigratedOnce ==
    /\ (MigrateEnded /\ fetched = "found" /\ Has(pre.docs[RecordId], SchemaKey)) =>
          /\ result = "returned" /\ db = pre /\ session = EmptySession
          /\ trace = <<>> /\ tin = EmptyDoc
    /\ (MigrateEnded /\ fetched = "found" /\ result = "returned") =>
          Has(db.docs[RecordId], SchemaKey)
    /\ \A row \in BagToSet(db.links) : CopiesIn(row, db.links) = 1
    /\ \A row \in BagToSet(db.reqs) : CopiesIn(row, db.reqs) = 1

\* a second migrate_record call met the document the first one committed
C9_Witness ==
    /\ MigrateEnded /\ ncalls >= 2 /\ fetched = "found" /\ result = "returned"
    /\ Has(pre.docs[RecordId], SchemaKey) /\ Has(pre.docs[RecordId], "resource_type")
    /\ BagToSet(db.links) # {} /\ BagToSet(db.reqs) # {}

\* C10: while transform_record is running its steps on an unmigrated input,
\* and after any of them raised, the record does not contain $schema, and
\* neither does the committed document of a migration that failed there.
C10_SchemaOnlyAtTheEnd ==
    /\ pc = "t_step" => ~Has(record, SchemaKey)
    /\ (mode = "direct" /\ pc = "idle" /\ result = "raised") =>
          (~Has(record, SchemaKey) /\ ~Has(held, SchemaKey))
    /\ (mode = "migrate" /\ orig.at = "transform") =>
          (~Has(record, SchemaKey) /\ ~Has(db.docs[RecordId], SchemaKey))

C10_Witness ==
    /\ mode = "migrate" /\ pc = "idle" /\ orig.at = "transform" /\ result = "raised"
    /\ Has(record, "resource_type") /\ ~Has(record, "creators")

====
